---- MODULE Spec2Model ----
(***************************************************************************)
(* A model of the two scripts of the repository:                           *)
(*   secure_examples.py        the sqlite3 storage helper                  *)
(*   termux_security_audit.py  the audit runner and its seven checks       *)
(* The two scripts share nothing; each has its own specification over the  *)
(* module's variables (the other script's variables stay at their initial  *)
(* values).                                                                *)
(***************************************************************************)
EXTENDS Integers, Sequences, FiniteSets, TLC

VARIABLES
    \* ---- secure_examples.py
    stores,     \* the databases that exist: each [tables, rows]
    disk,       \* file path -> index in stores of the database file, 0: no file
    conns,      \* the open connections: each the index of its database
    last,       \* the last call made and what it returned
    prev,       \* the insert_user call right before it, if that is what it was
    log,        \* per database, the (username, email) pairs inserted, in order
    \* ---- termux_security_audit.py
    args,       \* the parsed command line: [no_ports, no_setuid]
    env,        \* the host: tools on PATH, command outcomes, file system
    pc,         \* where main() is
    out,        \* what has been printed, one entry per print call
    exitCode    \* the interpreter's exit status once main() has ended

dbVars == <<stores, disk, conns, last, prev, log>>
auVars == <<args, env, pc, out, exitCode>>
vars == <<stores, disk, conns, last, prev, log, args, env, pc, out, exitCode>>

(***************************************************************************)
(* Helpers                                                                 *)
(***************************************************************************)
Min(a, b) == IF a < b THEN a ELSE b

Range(s) == { s[i] : i \in 1..Len(s) }

Rep(x, n) == [i \in 1..n |-> x]

RECURSIVE SumLens(_)
SumLens(ss) == IF ss = <<>> THEN 0 ELSE Len(Head(ss)) + SumLens(Tail(ss))

(***************************************************************************)
(* secure_examples.py                                                      *)
(***************************************************************************)
\* Bounds of the storage model.
MaxRows == 3
MaxConns == 2

\* The path sqlite3 reserves for a transient, private database.
MemoryPath == ":memory:"
\* Paths of database files; the last lies in a directory that does not exist,
\* so sqlite3.connect raises OperationalError on it.
FilePaths == {"a.db", "/nodir/a.db"}
Openable(path) == path # "/nodir/a.db"
Paths == {MemoryPath} \cup FilePaths

\* Text values, as sequences of characters: plain ones, ones that differ in
\* case only, and ones holding a quote, a statement terminator, a closing
\* parenthesis and a control character.
Usernames == { <<"a">>, <<"A">>, <<"a", "'", ";">> }
\* The (username, email) pairs the model inserts.
Inserted ==
    { <<u, <<"e">> >> : u \in Usernames } \cup { << <<"a", "'", ";">>, <<"'", ")", "\n">> >> }

EmptyStore == [tables |-> <<>>, rows |-> <<>>]
NoCall == [op |-> "none"]

\* A value bound to a "?" placeholder reaches the engine as data, whole.
BindCutAtQuote(v) ==
    IF \E i \in 1..Len(v) : v[i] = "'"
      THEN SubSeq(v, 1, (CHOOSE i \in 1..Len(v) :
                            v[i] = "'" /\ \A j \in 1..(i - 1) : v[j] # "'") - 1)
      ELSE v
Bind(v) == v

\* username = ? on a TEXT column: the default BINARY collation.
TextEqualsNoCase(x, y) ==
    LET Fold(c) == IF c = "A" THEN "a" ELSE c
    IN Len(x) = Len(y) /\ \A i \in 1..Len(x) : Fold(x[i]) = Fold(y[i])
TextEquals(x, y) == x = y

\* CREATE TABLE IF NOT EXISTS users(...): [raised, tables].
CreateUsersNoGuard(tables) ==
    IF \E i \in 1..Len(tables) : tables[i] = "users"
      THEN [raised |-> TRUE, tables |-> tables]
      ELSE [raised |-> FALSE, tables |-> Append(tables, "users")]
CreateUsersIfNotExists(tables) ==
    IF \E i \in 1..Len(tables) : tables[i] = "users"
      THEN [raised |-> FALSE, tables |-> tables]
      ELSE [raised |-> FALSE, tables |-> Append(tables, "users")]

\* id INTEGER PRIMARY KEY: the rowid sqlite assigns, one more than the largest.
RECURSIVE MaxId(_)
MaxId(rows) ==
    IF rows = <<>> THEN 0
    ELSE LET m == MaxId(Tail(rows)) IN IF Head(rows).id > m THEN Head(rows).id ELSE m
NextRowId(rows) == MaxId(rows) + 1

\* INSERT INTO users (username, email) VALUES (?, ?)
InsertRow(rows, username, email) ==
    Append(rows, [id |-> NextRowId(rows), username |-> Bind(username),
                  email |-> Bind(email)])

\* SELECT id, username, email FROM users WHERE username = ? ; fetchall()
RECURSIVE SelectByUsername(_, _)
SelectByUsername(rows, username) ==
    IF rows = <<>> THEN <<>>
    ELSE (IF TextEquals(Head(rows).username, Bind(username))
            THEN <<Head(rows)>> ELSE <<>>)
         \o SelectByUsername(Tail(rows), username)

TotalRows == SumLens([i \in 1..Len(stores) |-> stores[i].rows])

\* init_db(path): connect, create the table if absent, commit, return the
\* connection.  A second connection to a file sees the same database; every
\* connection to ":memory:" gets a database of its own.
init_db(path) ==
    /\ Len(conns) < MaxConns
    /\ IF path # MemoryPath /\ ~Openable(path)
         THEN /\ last' = [op |-> "init_db", path |-> path, raised |-> TRUE,
                          conn |-> 0, before |-> EmptyStore, existed |-> FALSE]
              /\ UNCHANGED <<stores, disk, conns, log>>
         ELSE LET existed == path # MemoryPath /\ disk[path] # 0
                  sid == IF existed THEN disk[path] ELSE Len(stores) + 1
                  before == IF existed THEN stores[sid] ELSE EmptyStore
                  made == CreateUsersIfNotExists(before.tables)
                  after == [before EXCEPT !.tables = made.tables]
              IN /\ stores' = IF existed THEN [stores EXCEPT ![sid] = after]
                                         ELSE Append(stores, after)
                 /\ log' = IF existed THEN log ELSE Append(log, <<>>)
                 /\ disk' = IF path = MemoryPath THEN disk
                                                 ELSE [disk EXCEPT ![path] = sid]
                 /\ conns' = IF made.raised THEN conns ELSE Append(conns, sid)
                 /\ last' = [op |-> "init_db", path |-> path, raised |-> made.raised,
                             conn |-> IF made.raised THEN 0 ELSE Len(conns) + 1,
                             before |-> before, existed |-> existed]
    /\ prev' = NoCall
    /\ UNCHANGED auVars

insert_user(c, username, email) ==
    /\ c \in 1..Len(conns)
    /\ TotalRows < MaxRows
    /\ LET sid == conns[c]
           before == stores[sid]
       IN /\ stores' = [stores EXCEPT ![sid].rows = InsertRow(before.rows, username, email)]
          /\ last' = [op |-> "insert_user", conn |-> c, store |-> sid,
                      username |-> username, email |-> email, before |-> before]
          /\ log' = [log EXCEPT ![sid] = Append(@, <<username, email>>)]
    /\ prev' = NoCall
    /\ UNCHANGED <<disk, conns>>
    /\ UNCHANGED auVars

find_user_by_username(c, username) ==
    /\ c \in 1..Len(conns)
    /\ last' = [op |-> "find_user_by_username", conn |-> c, store |-> conns[c],
                username |-> username,
                result |-> SelectByUsername(stores[conns[c]].rows, username)]
    /\ prev' = IF last.op = "insert_user" THEN last ELSE NoCall
    /\ UNCHANGED <<stores, disk, conns, log>>
    /\ UNCHANGED auVars

AuditIdle ==
    /\ args = [no_ports |-> FALSE, no_setuid |-> FALSE]
    /\ env = [idle |-> TRUE]
    /\ pc = "idle"
    /\ out = <<>>
    /\ exitCode = -1

InitDB ==
    /\ stores = <<>>
    /\ disk = [p \in FilePaths |-> 0]
    /\ conns = <<>>
    /\ last = NoCall
    /\ prev = NoCall
    /\ log = <<>>
    /\ AuditIdle

NextDB ==
    \/ \E path \in Paths : init_db(path)
    \/ \E c \in 1..MaxConns, p \in Inserted : insert_user(c, p[1], p[2])
    \/ \E c \in 1..MaxConns, u \in Usernames : find_user_by_username(c, u)

SpecDB == InitDB /\ [][NextDB]_vars

(***************************************************************************)
(* termux_security_audit.py: the host                                      *)
(***************************************************************************)
\* HOME and PREFIX when the environment sets neither.
Home == "/data/data/com.termux/files/home"
TermuxPrefix == "/data/data/com.termux/files/usr"

\* The external commands the checks run, and how one behaves on this host:
\*   absent    shutil.which finds nothing
\*   ok        exit status 0, its output on stdout (empty if it has none)
\*   failout   non-zero exit status after writing its output
\*   fail      non-zero exit status and nothing on stdout
\*   timeout   still running after the timeout (subprocess.TimeoutExpired)
Tools == {"pkg", "dpkg", "ss", "netstat", "find"}
ToolStates == {"absent", "ok", "failout", "fail", "timeout"}
Suspects == <<"nc", "ncat", "msfconsole", "meterpreter", "netcat", "adb">>

\* shutil.which(name)
Which(e, name) == e.tool[name] # "absent"

\* run_cmd(cmd, timeout): (returncode, stdout, stderr); any exception of
\* subprocess.run, the timeout among them, becomes (1, "", str(e)).
RunCmd(st, natural) ==
    CASE st = "ok"      -> [code |-> 0, out |-> natural, err |-> ""]
      [] st = "failout" -> [code |-> 1, out |-> natural, err |-> "error"]
      [] st = "fail"    -> [code |-> 1, out |-> <<>>, err |-> "error"]
      [] OTHER          -> [code |-> 1, out |-> <<>>, err |-> "TimeoutExpired"]

\* One print call: the section it belongs to, what it is, and its text.
Printed(sec, k, at, n, body) == [sec |-> sec, k |-> k, at |-> at, n |-> n, body |-> body]
Header(sec) == Printed(sec, "header", "", 0, <<>>)
Notice(sec, id) == Printed(sec, "notice", id, 0, <<>>)
Returned(lines) == [lines |-> lines, raised |-> FALSE]
Raised(lines) == [lines |-> lines, raised |-> TRUE]

(***************************************************************************)
(* The kinds of directory entry the scans meet.  os.walk lists every       *)
(* non-directory under "files"; Path.stat and Path.is_file follow symbolic *)
(* links; find -type f does not.                                           *)
(*   reg, reg_ww, reg_suid   regular files: no bit, o+w, setuid            *)
(*   fifo_ww                 a named pipe with o+w                         *)
(*   link_ww                 a symbolic link to a world-writable target    *)
(*                           outside the tree, such as /dev/null           *)
(*   broken                  a dangling symbolic link: stat raises         *)
(***************************************************************************)
Kinds == {"reg", "reg_ww", "reg_suid", "fifo_ww", "link_ww", "broken"}
IsRegular(k) == k \in {"reg", "reg_ww", "reg_suid"}
StatRaises(k) == k = "broken"
IsFile(k) == k \in {"reg", "reg_ww", "reg_suid"}
ModeWW(k) == k \in {"reg_ww", "fifo_ww", "link_ww"}
ModeSUID(k) == k = "reg_suid"

\* A tree is the sequence of its directories in walk order; a directory is a
\* sequence of runs <<kind, n>>: n entries of that kind in a row.
RECURSIVE Files(_)
Files(dir) ==
    IF dir = <<>> THEN <<>> ELSE Rep(Head(dir)[1], Head(dir)[2]) \o Files(Tail(dir))

\* The caps of the two scans.
SetuidCap == 50
WWLimit == 100
DpkgCap == 200

\* find <root> -xdev -type f -perm -4000 | -perm -002
FindMatches(mode, k) ==
    IsRegular(k) /\ (IF mode = "suid" THEN ModeSUID(k) ELSE ModeWW(k))

RECURSIVE FindAll(_, _, _, _)
FindAll(mode, root, tree, d) ==
    IF d > Len(tree) THEN <<>>
    ELSE LET fs == Files(tree[d])
             idx == SelectSeq([i \in 1..Len(fs) |-> i], LAMBDA i : FindMatches(mode, fs[i]))
         IN [j \in 1..Len(idx) |-> <<root, d, idx[j]>>] \o FindAll(mode, root, tree, d + 1)

\* ... | head -n <cap>
Head_n(lines, cap) == SubSeq(lines, 1, Min(Len(lines), cap))

\* The test inside the walks' try block; an exception means "continue".
WalkKeeps(mode, k) ==
    IF mode = "suid" THEN IsFile(k) /\ ~StatRaises(k) /\ ModeSUID(k)
                     ELSE ~StatRaises(k) /\ ModeWW(k)

\* if len(found) >= cap: break
CapNever(found, cap) == FALSE
CapReached(found, cap) == Len(found) >= cap

\* for name in files: ...  Every kept entry is appended to found, and the
\* loop is left right after the first append that reaches the cap.
WalkFiles(mode, root, d, fs, found, cap) ==
    LET idx == SelectSeq([i \in 1..Len(fs) |-> i], LAMBDA i : WalkKeeps(mode, fs[i]))
        kept == [j \in 1..Len(idx) |-> <<root, d, idx[j]>>]
        stops == { j \in 1..Len(kept) : CapReached(found \o SubSeq(kept, 1, j), cap) }
        m == IF stops = {} THEN Len(kept)
             ELSE CHOOSE j \in stops : \A j2 \in stops : j <= j2
    IN found \o SubSeq(kept, 1, m)

\* for root, dirs, files in os.walk(p): ...
RECURSIVE Walk(_, _, _, _, _, _)
Walk(mode, root, tree, d, found, cap) ==
    IF d > Len(tree) THEN found
    ELSE LET f2 == WalkFiles(mode, root, d, Files(tree[d]), found, cap)
         IN IF CapReached(f2, cap) THEN f2
            ELSE Walk(mode, root, tree, d + 1, f2, cap)

(***************************************************************************)
(* The checks.  Each returns what it printed and whether an exception      *)
(* left it.                                                                *)
(***************************************************************************)
PkgOut == <<"listing">>
DpkgOut == <<"Desired=", "ii  pkg-a", "ii  pkg-b">>
SsOut == <<"LISTEN 0 128 *:8022">>

list_installed_packages(e) ==
    LET hdr == <<Header("packages")>>
        r1 == RunCmd(e.tool["pkg"], PkgOut)
        r2 == RunCmd(e.tool["dpkg"], DpkgOut)
    IN IF Which(e, "pkg") /\ r1.out # <<>>
         THEN Returned(hdr \o <<Printed("packages", "output", "pkg", 0, r1.out)>>)
       ELSE IF Which(e, "dpkg") /\ r2.out # <<>>
         THEN Returned(hdr \o <<Printed("packages", "output", "dpkg", 0,
                                        Head_n(r2.out, DpkgCap))>>)
       ELSE Returned(hdr \o <<Notice("packages", "absent")>>)

list_listening_ports(e) ==
    LET hdr == <<Header("ports")>>
        r1 == RunCmd(e.tool["ss"], SsOut)
        r2 == RunCmd(e.tool["netstat"], SsOut)
    IN IF Which(e, "ss") /\ r1.out # <<>>
         THEN Returned(hdr \o <<Printed("ports", "output", "ss", 0, r1.out)>>)
       ELSE IF Which(e, "netstat") /\ r2.out # <<>>
         THEN Returned(hdr \o <<Printed("ports", "output", "netstat", 0, r2.out)>>)
       ELSE Returned(hdr \o <<Notice("ports", "absent")>>)

\* find_setuid_files: the loop over the candidates.  Path.exists re-raises
\* the OSError of a stat that is refused (EACCES), outside any try block.
RECURSIVE SetuidLoop(_, _, _, _)
SetuidLoop(e, cands, seen, acc) ==
    IF cands = <<>> THEN Returned(acc)
    ELSE LET p == Head(cands)
             st == e.dirs[p]
             tree == e.trees[p]
             r == RunCmd(e.tool["find"], Head_n(FindAll("suid", p, tree, 1), SetuidCap))
             found == Walk("suid", p, tree, 1, <<>>, SetuidCap)
             shown == IF Which(e, "find")
                        THEN IF r.out # <<>>
                               THEN <<Printed("setuid", "title", p, 0, <<>>),
                                      Printed("setuid", "output", p, 0, r.out)>>
                               ELSE <<>>
                        ELSE IF found # <<>>
                               THEN <<Printed("setuid", "title", p, 0, <<>>),
                                      Printed("setuid", "paths", p, 0, found)>>
                               ELSE <<>>
         IN IF st = "denied" THEN Raised(acc)
            ELSE IF st = "present" /\ p \notin seen
              THEN SetuidLoop(e, Tail(cands), seen \cup {p}, acc \o shown)
              ELSE SetuidLoop(e, Tail(cands), seen, acc)

Candidates(e) == <<e.prefix, "/system/bin", "/system/xbin", "/sbin", "/bin", Home>>
AllDirs == {TermuxPrefix, "/system/bin", "/system/xbin", "/sbin", "/bin", Home}

find_setuid_files(e) ==
    SetuidLoop(e, Candidates(e), {}, <<Header("setuid")>>)

(***************************************************************************)
(* scan_startup_for_pipe_feedback.  A file's text is a sequence of tokens: *)
(* words, the pipe, blanks, and the line boundaries "\n" and "\f".         *)
(***************************************************************************)
StartupFiles == <<".bashrc", ".profile", ".bash_profile", ".zshrc">>

Lower(t) ==
    CASE t = "CURL" -> "curl" [] t = "WGET" -> "wget" [] t = "Fetch" -> "fetch"
      [] t = "SH" -> "sh" [] t = "BASH" -> "bash" [] OTHER -> t
IsDownload(t) == Lower(t) \in {"curl", "wget", "fetch"}
IsShell(t) == Lower(t) \in {"sh", "bash"}
IsSpace(t) == t \in {" ", "\f", "\n"}
IsWordTok(t) == ~IsSpace(t) /\ t \notin {"|", ";"}

\* pattern.search(line): (curl|wget|fetch).*\|\s*(sh|bash)\b, re.IGNORECASE
PatternSearch(line) ==
    \E i, j, k \in 1..Len(line) :
        /\ i < j /\ j < k
        /\ IsDownload(line[i])
        /\ line[j] = "|"
        /\ \A m \in (j + 1)..(k - 1) : IsSpace(line[m])
        /\ IsShell(line[k])
        /\ (k = Len(line) \/ ~IsWordTok(line[k + 1]))

\* str.splitlines(): "\n" ends a line, and so does the form feed (one of
\* the further line boundaries of str.splitlines, with \v, \r and \x1c-\x1e).
IsBoundary(t) == t \in {"\n", "\f"}
RECURSIVE SplitLines(_, _)
SplitLines(text, cur) ==
    IF text = <<>> THEN (IF cur = <<>> THEN <<>> ELSE <<cur>>)
    ELSE IF IsBoundary(Head(text)) THEN <<cur>> \o SplitLines(Tail(text), <<>>)
    ELSE SplitLines(Tail(text), Append(cur, Head(text)))

\* str.strip()
RECURSIVE LStrip(_)
LStrip(line) ==
    IF line # <<>> /\ IsSpace(Head(line)) THEN LStrip(Tail(line)) ELSE line
RECURSIVE RStrip(_)
RStrip(line) ==
    IF line # <<>> /\ IsSpace(line[Len(line)])
      THEN RStrip(SubSeq(line, 1, Len(line) - 1)) ELSE line
Strip(line) == RStrip(LStrip(line))

\* for i, line in enumerate(text.splitlines(), 1): if pattern.search(line): print
ReportsOf(f, text) ==
    LET ls == SplitLines(text, <<>>)
        hits == SelectSeq([i \in 1..Len(ls) |-> i], LAMBDA i : PatternSearch(ls[i]))
    IN [j \in 1..Len(hits) |-> Printed("startup", "report", f, hits[j], Strip(ls[hits[j]]))]

\* A startup file is absent, denied (the stat of f.exists() is refused and
\* raises), unreadable (read_text raises: skipped), or readable text.
RECURSIVE StartupLoop(_, _, _)
StartupLoop(e, fs, acc) ==
    IF fs = <<>>
      THEN Returned(IF \E i \in 1..Len(acc) : acc[i].k = "report"
                      THEN acc ELSE Append(acc, Notice("startup", "none")))
    ELSE LET f == Head(fs)
             st == e.startup[f].st
         IN IF st = "denied" THEN Raised(acc)
            ELSE IF st = "text"
              THEN StartupLoop(e, Tail(fs), acc \o ReportsOf(f, e.startup[f].text))
              ELSE StartupLoop(e, Tail(fs), acc)

scan_startup_for_pipe_feedback(e) ==
    StartupLoop(e, StartupFiles, <<Header("startup")>>)

\* list_ssh_keys.  ~/.ssh is absent, denied (exists raises), file (not a
\* directory) or dir; its entries come sorted, and print raises
\* UnicodeEncodeError on a name that is not valid UTF-8.
SshNames == <<"id_rsa", "id_rsa.pub", "k\\udcff">>
Encodable(name) == name # "k\\udcff"

RECURSIVE PrintKeys(_, _)
PrintKeys(keys, acc) ==
    IF keys = <<>> THEN Returned(acc)
    ELSE IF ~Encodable(Head(keys)) THEN Raised(acc)
    ELSE PrintKeys(Tail(keys), Append(acc, Printed("ssh", "key", Head(keys), 0, <<>>)))

list_ssh_keys(e) ==
    LET hdr == <<Header("ssh")>>
        keys == SelectSeq(SshNames, LAMBDA k : k \in e.ssh.keys)
    IN IF e.ssh.st = "denied" THEN Raised(hdr)
       ELSE IF e.ssh.st = "dir"
         THEN IF keys # <<>> THEN PrintKeys(keys, hdr)
              ELSE Returned(hdr \o <<Notice("ssh", "empty")>>)
       ELSE Returned(hdr \o <<Notice("ssh", "absent")>>)

\* find_world_writable_files(limit=100)
find_world_writable_files(e, limit) ==
    LET hdr == <<Header("ww")>>
        tree == IF e.dirs[Home] = "present" THEN e.trees[Home] ELSE <<>>
        r == RunCmd(e.tool["find"], Head_n(FindAll("ww", Home, tree, 1), limit))
        found == Walk("ww", Home, tree, 1, <<>>, limit)
    IN IF Which(e, "find")
         THEN IF r.out # <<>>
                THEN Returned(hdr \o <<Printed("ww", "output", Home, 0, r.out)>>)
                ELSE Returned(hdr \o <<Notice("ww", "none-or-empty")>>)
         ELSE IF found # <<>>
                THEN Returned(hdr \o <<Printed("ww", "paths", Home, 0, found)>>)
                ELSE Returned(hdr \o <<Notice("ww", "none")>>)

\* quick_checks
quick_checks(e) ==
    LET found == SelectSeq(Suspects, LAMBDA b : b \in e.suspects)
    IN Returned(<<Printed("quick", "info", "performing", 0, <<>>),
                  Header("quick"),
                  Printed("quick", "info", "HOME", 0, <<>>),
                  Printed("quick", "info", "PREFIX", 0, <<>>),
                  Printed("quick", "info", "PATH", 0, <<>>),
                  IF found # <<>> THEN Printed("quick", "info", "suspects", 0, found)
                                  ELSE Notice("quick", "no-suspects")>>)

\* The closing block of main().
Recommendations ==
    [i \in 1..6 |-> Printed("recs", "info", "recommendation", i, <<>>)]

(***************************************************************************)
(* main(): one step per call it makes.  An exception that leaves a check   *)
(* leaves main() too: the interpreter prints the traceback and exits 1.    *)
(***************************************************************************)
Step(r, next) ==
    /\ out' = out \o r.lines
    /\ pc' = IF r.raised THEN "crashed" ELSE next
    /\ exitCode' = IF r.raised THEN 1 ELSE exitCode
    /\ UNCHANGED <<args, env>>
    /\ UNCHANGED dbVars

MainStart ==
    /\ pc = "start"
    /\ Step(Returned(<<Printed("main", "info", "title", 0, <<>>),
                       Printed("main", "info", "scan-root", 0, <<>>)>>), "packages")

MainPackages ==
    /\ pc = "packages"
    /\ Step(list_installed_packages(env), "ports")

MainPorts ==
    /\ pc = "ports"
    /\ Step(IF ~args.no_ports THEN list_listening_ports(env) ELSE Returned(<<>>), "setuid")

MainSetuid ==
    /\ pc = "setuid"
    /\ Step(IF ~args.no_setuid THEN find_setuid_files(env) ELSE Returned(<<>>), "startup")

MainStartup ==
    /\ pc = "startup"
    /\ Step(scan_startup_for_pipe_feedback(env), "ssh")

MainSsh ==
    /\ pc = "ssh"
    /\ Step(list_ssh_keys(env), "ww")

MainWorldWritable ==
    /\ pc = "ww"
    /\ Step(find_world_writable_files(env, WWLimit), "quick")

MainQuick ==
    /\ pc = "quick"
    /\ Step(quick_checks(env), "recs")

MainRecommendations ==
    /\ pc = "recs"
    /\ out' = out \o Recommendations
    /\ pc' = "done"
    /\ exitCode' = 0
    /\ UNCHANGED <<args, env>>
    /\ UNCHANGED dbVars

NextAudit ==
    \/ MainStart
    \/ MainPackages
    \/ MainPorts
    \/ MainSetuid
    \/ MainStartup
    \/ MainSsh
    \/ MainWorldWritable
    \/ MainQuick
    \/ MainRecommendations

(***************************************************************************)
(* Hosts and command lines the runs start from                             *)
(***************************************************************************)
\* Bounds of the audit model: the longest line enumerated for the startup
\* scan, and by how much a tree exceeds a cap.
MaxLineLen == 4
MaxExtra == 1

DBIdle ==
    /\ stores = <<>>
    /\ disk = [p \in FilePaths |-> 0]
    /\ conns = <<>>
    /\ last = NoCall
    /\ prev = NoCall
    /\ log = <<>>

Absent == [st |-> "absent", text |-> <<>>]
Text(t) == [st |-> "text", text |-> t]

\* A Termux host with every tool working, a few setuid files under /bin, one
\* world-writable file under HOME, two keys and clean startup files.
BenignEnv ==
    [tool |-> [t \in Tools |-> "ok"],
     suspects |-> {"adb"},
     prefix |-> TermuxPrefix,
     dirs |-> [d \in AllDirs |->
                 IF d \in {TermuxPrefix, "/bin", Home} THEN "present" ELSE "absent"],
     trees |-> [d \in AllDirs |->
                 IF d = "/bin" THEN << << <<"reg_suid", 2>>, <<"reg", 1>> >> >>
                 ELSE IF d = Home THEN << << <<"reg", 1>>, <<"reg_ww", 1>> >> >>
                 ELSE << << <<"reg", 1>> >> >>],
     startup |-> [f \in Range(StartupFiles) |->
                 IF f = ".bashrc" THEN Text(<<"x", " ", "x", "\n">>) ELSE Absent],
     ssh |-> [st |-> "dir", keys |-> {"id_rsa", "id_rsa.pub"}]]

\* File systems the runner is started on.
FsCases ==
    { BenignEnv,
      \* HOME cannot be searched by the user running the script
      [BenignEnv EXCEPT !.startup = [f \in Range(StartupFiles) |->
                                        [st |-> "denied", text |-> <<>>]],
                        !.ssh = [st |-> "denied", keys |-> {}],
                        !.trees[Home] = <<>>],
      \* HOME lies in a directory the user cannot search
      [BenignEnv EXCEPT !.dirs[Home] = "denied",
                        !.startup = [f \in Range(StartupFiles) |->
                                        [st |-> "denied", text |-> <<>>]],
                        !.ssh = [st |-> "denied", keys |-> {}]],
      \* a key file whose name is not valid UTF-8
      [BenignEnv EXCEPT !.ssh.keys = {"id_rsa", "k\\udcff"}],
      \* no ~/.ssh, a download piped into a shell, an unreadable .profile
      [BenignEnv EXCEPT !.ssh = [st |-> "absent", keys |-> {}],
                        !.suspects = {},
                        !.startup[".bashrc"] =
                            Text(<<"x", "\n", "curl", " ", "x", " ", "|", " ", "sh", "\n">>),
                        !.startup[".profile"] = [st |-> "unreadable", text |-> <<>>]],
      \* nothing setuid and nothing world-writable; PREFIX set to /bin
      [BenignEnv EXCEPT !.prefix = "/bin",
                        !.trees["/bin"] = << << <<"reg", 2>> >> >>,
                        !.trees[Home] = << << <<"reg", 2>> >> >>,
                        !.ssh.keys = {}] }

InitAudit ==
    /\ DBIdle
    /\ args \in [no_ports : BOOLEAN, no_setuid : BOOLEAN]
    /\ \E fs \in FsCases :
       \E tool \in [Tools -> ToolStates] :
          /\ tool["dpkg"] \in {"absent", "ok", "fail"}
          /\ tool["netstat"] \in {"absent", "ok", "timeout"}
          /\ env = [fs EXCEPT !.tool = tool]
    /\ pc = "start"
    /\ out = <<>>
    /\ exitCode = -1

SpecAudit == InitAudit /\ [][NextAudit]_vars

\* Startup files: .bashrc holds an optional first line, then one line of up
\* to MaxLineLen tokens, each ended by "\n" or by a form feed.
LineTokens == {"curl", "|", " ", "sh", "x"}
Lines == UNION { [1..m -> LineTokens] : m \in 0..MaxLineLen }
FirstLines == { <<>>, <<"x", "\n">>, <<"WGET", "|", "BASH", ";", "\n">>, <<"x", "\f">> }

InitScan ==
    /\ DBIdle
    /\ args = [no_ports |-> FALSE, no_setuid |-> FALSE]
    /\ \E first \in FirstLines, line \in Lines,
          profile \in { Absent, [st |-> "unreadable", text |-> <<>>],
                        [st |-> "denied", text |-> <<>>],
                        Text(<<" ", "Fetch", "x", "|", " ", "SH", " ", "\n", "sh", "x">>) } :
          env = [BenignEnv EXCEPT !.startup[".bashrc"] = Text(first \o line \o <<"\n">>),
                                  !.startup[".profile"] = profile]
    /\ pc = "start"
    /\ out = <<>>
    /\ exitCode = -1

SpecScan == InitScan /\ [][NextAudit]_vars

\* Trees under HOME: two directories, the first of two runs of entries, with
\* run lengths around the two caps; find present, failing or missing, and
\* the other tools all present or all missing.
RunLens1 == {1, SetuidCap - 1, SetuidCap, WWLimit - 1, WWLimit + MaxExtra}
RunLens2 == {0, 1, SetuidCap + MaxExtra}
RunLens3 == {0, 2, WWLimit}

InitWalk ==
    /\ DBIdle
    /\ args = [no_ports |-> FALSE, no_setuid |-> FALSE]
    /\ \E k1 \in Kinds, k2 \in Kinds, k3 \in {"reg_ww", "reg_suid"},
          n1 \in RunLens1, n2 \in RunLens2, n3 \in RunLens3,
          find \in {"absent", "ok", "fail"}, others \in {"absent", "ok"} :
          env = [BenignEnv EXCEPT !.tool = [t \in Tools |->
                                              IF t = "find" THEN find ELSE others],
                                  !.trees[Home] = << << <<k1, n1>>, <<k2, n2>> >>,
                                                     << <<k3, n3>> >> >>]
    /\ pc = "start"
    /\ out = <<>>
    /\ exitCode = -1

SpecWalk == InitWalk /\ [][NextAudit]_vars

(***************************************************************************)
(* Claims about secure_examples.py                                         *)
(***************************************************************************)
CountUsers(tables) == Cardinality({ i \in 1..Len(tables) : tables[i] = "users" })
HasQuote(v) == \E i \in 1..Len(v) : v[i] = "'"

\* The last call is a lookup of the username the call right before it
\* inserted, on the same database.
FindAfterInsert ==
    /\ last.op = "find_user_by_username"
    /\ prev.op = "insert_user"
    /\ prev.store = last.store
    /\ prev.username = last.username

\* C1 (as amended): insert_user(conn, u, e) followed by find_user_by_username(
\* conn, u) returns the records that were already stored under u, unchanged and
\* in order, followed by exactly one new record (fresh id, u, e) - so exactly
\* the inserted record when u was not stored before - whatever characters u
\* and e hold; and the insert leaves the table structure and every record
\* stored before it unchanged.
C1_InsertThenFind ==
    /\ FindAfterInsert =>
         LET old == prev.before.rows
             oldMatch == SelectSeq(old, LAMBDA r : r.username = prev.username)
             res == last.result
         IN /\ Len(res) = Len(oldMatch) + 1
            /\ SubSeq(res, 1, Len(res) - 1) = oldMatch
            /\ res[Len(res)].username = prev.username
            /\ res[Len(res)].email = prev.email
            /\ \A i \in 1..Len(old) : old[i].id # res[Len(res)].id
    /\ last.op = "insert_user" =>
         LET now == stores[last.store]
         IN /\ now.tables = last.before.tables
            /\ Len(now.rows) = Len(last.before.rows) + 1
            /\ SubSeq(now.rows, 1, Len(last.before.rows)) = last.before.rows

\* C1 witness: a lookup right after the insert of a username holding a quote,
\* into a database that stored records before.
C1_Witness ==
    /\ FindAfterInsert
    /\ HasQuote(prev.username)
    /\ HasQuote(prev.email)
    /\ prev.before.rows # <<>>
    /\ Len(last.result) = 1

\* C1 as stated: the lookup after the insert returns exactly the inserted
\* record, for any store state reached by earlier inserts.
C1_Original ==
    FindAfterInsert =>
        /\ Len(last.result) = 1
        /\ last.result[1].username = prev.username
        /\ last.result[1].email = prev.email

\* C2: find_user_by_username(conn, u) returns exactly one record per earlier
\* insert of u into that database, in insertion order and with the inserted
\* email, no record of another username, and nothing for a username never
\* inserted.
C2_LookupExact ==
    last.op = "find_user_by_username" =>
        LET ins == SelectSeq(log[last.store], LAMBDA p : p[1] = last.username)
            res == last.result
        IN /\ Len(res) = Len(ins)
           /\ \A i \in 1..Len(res) :
                 /\ res[i].username = last.username
                 /\ res[i].email = ins[i][2]
           /\ \A i, j \in 1..Len(res) : i # j => res[i].id # res[j].id

\* C2 witness: a username inserted twice is looked up in a database that also
\* holds a username differing from it in case only.
C2_Witness ==
    /\ last.op = "find_user_by_username"
    /\ Len(last.result) = 2
    /\ \E i \in 1..Len(log[last.store]) :
          /\ log[last.store][i][1] # last.username
          /\ TextEqualsNoCase(log[last.store][i][1], last.username)

\* C3: an init_db on a path that an earlier init_db opened does not raise,
\* leaves the database exactly as it found it, and the database holds exactly
\* one users table; so does every init_db on the transient path.
C3_InitIdempotent ==
    (last.op = "init_db" /\ (last.existed \/ last.path = MemoryPath)) =>
        /\ ~last.raised
        /\ last.conn = Len(conns)
        /\ CountUsers(stores[conns[last.conn]].tables) = 1
        /\ last.existed => stores[conns[last.conn]] = last.before

\* C3 witness: a second init_db on a database file that already holds records.
C3_Witness ==
    /\ last.op = "init_db"
    /\ last.existed
    /\ ~last.raised
    /\ last.before.rows # <<>>
    /\ Len(conns) = 2

(***************************************************************************)
(* Claims about termux_security_audit.py                                   *)
(***************************************************************************)
Ended == pc \in {"done", "crashed"}
SecLines(sec) == SelectSeq(out, LAMBDA x : x.sec = sec)
HeaderSeq ==
    LET hs == SelectSeq(out, LAMBDA x : x.k = "header") IN [i \in 1..Len(hs) |-> hs[i].sec]
HasNotice(sec, id) ==
    \E i \in 1..Len(out) : out[i].sec = sec /\ out[i].k = "notice" /\ out[i].at = id
ExpectedSections(a) ==
    <<"packages">> \o (IF a.no_ports THEN <<>> ELSE <<"ports">>)
        \o (IF a.no_setuid THEN <<>> ELSE <<"setuid">>)
        \o <<"startup", "ssh", "ww", "quick">>
ClosingPrinted == Len(SecLines("recs")) = 6

\* C4: whatever fails inside a check, main() runs every check that is not
\* skipped, prints the closing recommendations and ends with exit status 0.
C4_NoFailurePropagates ==
    Ended =>
        /\ pc = "done"
        /\ exitCode = 0
        /\ ClosingPrinted
        /\ \A i \in 1..Len(ExpectedSections(args)) :
              \E j \in 1..Len(out) :
                 out[j].k = "header" /\ out[j].sec = ExpectedSections(args)[i]

\* C5: a run prints the sections in the one fixed order, without the ports
\* section exactly under --no-ports, without the setuid section exactly under
\* --no-setuid, and with every other section whatever the flags.
C5_FixedOrderAndFlags ==
    Ended => HeaderSeq = ExpectedSections(args)

\* C6: a check prints, when its command is present but fails (non-zero exit
\* status, nothing on stdout) or times out, what it prints when that command
\* is not installed.
Unfail(e) ==
    [e EXCEPT !.tool = [t \in Tools |->
                          IF e.tool[t] \in {"fail", "timeout"} THEN "absent" ELSE e.tool[t]]]
Ran(sec) == \E i \in 1..Len(out) : out[i].k = "header" /\ out[i].sec = sec
C6_FailLikeAbsent ==
    /\ Ran("packages") => SecLines("packages") = list_installed_packages(Unfail(env)).lines
    /\ Ran("ports") => SecLines("ports") = list_listening_ports(Unfail(env)).lines
    /\ Ran("setuid") => SecLines("setuid") = find_setuid_files(Unfail(env)).lines
    /\ Ran("ww") => SecLines("ww") = find_world_writable_files(Unfail(env), WWLimit).lines

\* C7: with none of pkg, dpkg, ss, netstat and find on the search path, a run
\* without skip flags completes and prints an absence notice in the package
\* listing, the ports check, the setuid check and the world-writable check.
C7_AbsenceNotices ==
    (Ended /\ ~args.no_ports /\ ~args.no_setuid /\ \A t \in Tools : ~Which(env, t)) =>
        /\ pc = "done"
        /\ \A sec \in {"packages", "ports", "setuid", "ww"} : HasNotice(sec, "absent")

\* The entry a reported path names, and the paths a section reported below
\* one root.
KindAt(path) == Files(env.trees[path[1]][path[2]])[path[3]]
RECURSIVE TotalBody(_)
TotalBody(entries) ==
    IF entries = <<>> THEN 0 ELSE Len(Head(entries).body) + TotalBody(Tail(entries))
PathsUnder(sec, root) ==
    SelectSeq(out, LAMBDA x : x.sec = sec /\ x.k \in {"paths", "output"} /\ x.at = root)
RECURSIVE CountKept(_, _, _)
CountKept(mode, tree, d) ==
    IF d > Len(tree) THEN 0
    ELSE LET fs == Files(tree[d])
         IN Cardinality({ i \in 1..Len(fs) : WalkKeeps(mode, fs[i]) })
              + CountKept(mode, tree, d + 1)

RECURSIVE NewlineLines(_, _)
NewlineLines(text, cur) ==
    IF text = <<>> THEN (IF cur = <<>> THEN <<>> ELSE <<cur>>)
    ELSE IF Head(text) = "\n" THEN <<cur>> \o NewlineLines(Tail(text), <<>>)
    ELSE NewlineLines(Tail(text), Append(cur, Head(text)))
RECURSIVE ExpectedReports(_)
ExpectedReports(fs) ==
    IF fs = <<>> THEN <<>>
    ELSE LET f == Head(fs)
             ls == IF env.startup[f].st = "text"
                     THEN NewlineLines(env.startup[f].text, <<>>) ELSE <<>>
             hits == SelectSeq([i \in 1..Len(ls) |-> i], LAMBDA i : PatternSearch(ls[i]))
         IN [j \in 1..Len(hits) |->
                Printed("startup", "report", f, hits[j], Strip(ls[hits[j]]))]
            \o ExpectedReports(Tail(fs))

\* C9: the startup scan reports every matching line of every candidate file,
\* once, with its file, its 1-based line number and its text, in file order,
\* reports no other line, and prints the no-matches notice exactly when no
\* line matches.
C9_ScanReportsExactly ==
    Ran("startup") =>
        /\ SelectSeq(out, LAMBDA x : x.k = "report") = ExpectedReports(StartupFiles)
        /\ HasNotice("startup", "none") <=> ExpectedReports(StartupFiles) = <<>>

\* C10: every path the world-writable scan reports is a regular file under
\* HOME with the world-writable bit, and the directory walk reports the files
\* find reports for the same tree.
C10_WalkLikeFind ==
    /\ \A i \in 1..Len(out) :
          (out[i].sec = "ww" /\ out[i].k \in {"paths", "output"}) =>
              \A j \in 1..Len(out[i].body) :
                 /\ out[i].body[j][1] = Home
                 /\ IsRegular(KindAt(out[i].body[j]))
                 /\ ModeWW(KindAt(out[i].body[j]))
    /\ (Ran("ww") /\ ~Which(env, "find")) =>
          TotalBody(PathsUnder("ww", Home))
              = Len(Head_n(FindAll("ww", Home, env.trees[Home], 1), WWLimit))

====
